---- MODULE Spec2Model ----
(***************************************************************************)
(* Mandelbrot-Term (src/src/main.rs): the control loop of main, the        *)
(* fractal kernels, the sampler calculate_pixel, the glyph table           *)
(* get_pixel, the row renderer render_row and the parallel render_frame.   *)
(*                                                                         *)
(* Numbers.  u32 values (iteration counts, the cap) are pairs <<hi, lo>>   *)
(* of 16-bit limbs with std::simd's wrapping arithmetic.  Viewport         *)
(* coordinates are exact rationals <<n, d>> in lowest terms (rounding of   *)
(* f64 is not modelled there).  The kernels' f64 arithmetic is fixed-point *)
(* with FracBits fractional bits, every product rounded toward zero.       *)
(***************************************************************************)
EXTENDS Integers, Sequences, FiniteSets, TLC

VARIABLES
    \* main's locals (main.rs 365-374) and the position in its loop
    position, max_iterations, fractal_index, last_terminal_size,
    should_redraw, pc,
    \* the environment: what terminal::size() returns, what the sink received
    term_size, sink,
    \* history: the event handled last, the state it acted on, pan/zoom count
    last_key, before, moves,
    \* one call of a kernel FRACTALS[k_idx] (main.rs 24-87): its arguments
    \* scaled_x/scaled_y (k_c) and max_iterations (k_cap), its locals (k_z,
    \* k_iter, lane by lane) and its position (k_pc)
    k_idx, k_c, k_cap, k_z, k_iter, k_pc,
    \* one call of calculate_pixel from the four counts on (main.rs 219-292):
    \* subpixel_values, max_iterations, subpixels, subpixels_on_values,
    \* subpixels_off_values, the Pixel returned, and its position
    px_values, px_cap, px_subpixels, px_on, px_off, px_pixel, px_pc,
    \* one call of render_frame (main.rs 337-360): its arguments, the state of
    \* the row tasks, what each returned, the rows in the order they
    \* completed, the String returned, and its position
    f_args, f_task, f_result, f_completed, f_output, f_pc,
    \* the input events that have arrived and were not read yet (each with
    \* the place main was at when it arrived), the number of events that
    \* arrived so far, and what the BufWriter was handed and has not flushed
    pending, arrived, writer

ctlVars == <<position, max_iterations, fractal_index, last_terminal_size,
             should_redraw, pc, term_size, sink, last_key, before, moves>>

kernelVars == <<k_idx, k_c, k_cap, k_z, k_iter, k_pc>>

pixelVars == <<px_values, px_cap, px_subpixels, px_on, px_off, px_pixel, px_pc>>

frameVars == <<f_args, f_task, f_result, f_completed, f_output, f_pc>>

loopVars == <<pending, arrived, writer>>

vars == <<ctlVars, kernelVars, pixelVars, frameVars, loopVars>>

----------------------------------------------------------------------------
(* Bounds of the exploration *)

\* pan/zoom events explored since the last reset of the viewport
MaxMoves == 2
\* '=' is explored while the cap is at most 100 + 10 * MaxCapUps
MaxCapUps == 1
\* the caps a kernel is called with are 0 .. MaxKernelCap
MaxKernelCap == 3
\* fractional bits of the fixed-point numbers that stand for f64
FracBits == 10
\* the small cap the sampler is explored with (besides one near 2^32)
MaxPixelCap == 3
\* render_frame is explored for 1 .. MaxWidth columns, 1 .. MaxHeight rows
\* and the caps 1 and MaxFrameCap
MaxWidth == 3
MaxHeight == 3
MaxFrameCap == 3
\* and for the default viewport and the one FramePans presses of 'w' give
FramePans == 10
\* input events that arrive while the loop with its renders in flight is
\* explored
MaxEvents == 3

----------------------------------------------------------------------------
(* Exact rationals <<n, d>>, d > 0, in lowest terms *)

Abs(n) == IF n < 0 THEN -n ELSE n

RECURSIVE GCD(_, _)
GCD(a, b) == IF b = 0 THEN a ELSE GCD(b, a % b)

Rat(n, d) ==
    LET g == GCD(Abs(n), Abs(d))
        s == IF d < 0 THEN -1 ELSE 1
    IN  <<(s * n) \div g, (s * d) \div g>>

RInt(n) == <<n, 1>>

RAdd(a, b) ==
    LET l == (a[2] \div GCD(a[2], b[2])) * b[2]
    IN  Rat(a[1] * (l \div a[2]) + b[1] * (l \div b[2]), l)

RNeg(a) == <<-a[1], a[2]>>

RSub(a, b) == RAdd(a, RNeg(b))

RMul(a, b) ==
    LET x == Rat(a[1], b[2])
        y == Rat(b[1], a[2])
    IN  <<x[1] * y[1], x[2] * y[2]>>

RDiv(a, b) == RMul(a, Rat(b[2], b[1]))

RLt(a, b) ==
    LET l == (a[2] \div GCD(a[2], b[2])) * b[2]
    IN  a[1] * (l \div a[2]) < b[1] * (l \div b[2])

----------------------------------------------------------------------------
(* u32 with wrapping arithmetic: <<hi, lo>>, value hi * 2^16 + lo *)

Limb == 2 ^ 16

U32(n) == <<n \div Limb, n % Limb>>

U32Add(a, b) ==
    LET lo == a[2] + b[2]
    IN  <<(a[1] + b[1] + lo \div Limb) % Limb, lo % Limb>>

U32Sub(a, b) ==
    LET lo == a[2] - b[2]
        borrow == IF lo < 0 THEN 1 ELSE 0
    IN  <<(a[1] - b[1] - borrow) % Limb, lo % Limb>>

U32Lt(a, b) == a[1] < b[1] \/ (a[1] = b[1] /\ a[2] < b[2])

U32Gt(a, b) == U32Lt(b, a)

U32Ge(a, b) == ~U32Lt(a, b)

\* a / n for a small divisor n (1..4)
U32Div(a, n) ==
    <<a[1] \div n, ((a[1] % n) * Limb + a[2]) \div n>>

----------------------------------------------------------------------------
(* Position (main.rs 89-112) *)

default_position ==
    [top |-> RInt(-1), bottom |-> RInt(1), left |-> RInt(-2), right |-> RInt(1)]

width(p) == RSub(p.right, p.left)

height(p) == RSub(p.bottom, p.top)

center(p) ==
    <<RDiv(RAdd(p.left, p.right), RInt(2)), RDiv(RAdd(p.top, p.bottom), RInt(2))>>

\* 'w' (main.rs 397-404): the window moves up by a tenth of its half height
PanW(p) ==
    LET c == center(p)
        zoom == RDiv(height(p), RInt(2))
    IN  [p EXCEPT !.top = RSub(c[2], RMul(zoom, Rat(11, 10))),
                  !.bottom = RAdd(c[2], RMul(zoom, Rat(9, 10)))]

\* 's' with the receding edge scaled by 1.0 instead of 1.1
PanSShort(p) ==
    LET c == center(p)
        zoom == RDiv(height(p), RInt(2))
    IN  [p EXCEPT !.top = RSub(c[2], RMul(zoom, Rat(9, 10))),
                  !.bottom = RAdd(c[2], zoom)]

\* 's' (main.rs 405-412)
PanS(p) ==
    LET c == center(p)
        zoom == RDiv(height(p), RInt(2))
    IN  [p EXCEPT !.top = RSub(c[2], RMul(zoom, Rat(9, 10))),
                  !.bottom = RAdd(c[2], RMul(zoom, Rat(11, 10)))]

\* 'a' (main.rs 413-420)
PanA(p) ==
    LET c == center(p)
        zoom == RDiv(width(p), RInt(2))
    IN  [p EXCEPT !.left = RSub(c[1], RMul(zoom, Rat(11, 10))),
                  !.right = RAdd(c[1], RMul(zoom, Rat(9, 10)))]

\* 'd' (main.rs 421-428)
PanD(p) ==
    LET c == center(p)
        zoom == RDiv(width(p), RInt(2))
    IN  [p EXCEPT !.left = RSub(c[1], RMul(zoom, Rat(9, 10))),
                  !.right = RAdd(c[1], RMul(zoom, Rat(11, 10)))]

\* Up with the signs of the left and right offsets exchanged
ZoomInMirrored(p) ==
    LET c == center(p)
        hw == RDiv(width(p), RInt(2))
        hh == RDiv(height(p), RInt(2))
    IN  [top |-> RSub(c[2], RMul(hh, Rat(9, 10))),
         bottom |-> RAdd(c[2], RMul(hh, Rat(9, 10))),
         left |-> RAdd(c[1], RMul(hw, Rat(9, 10))),
         right |-> RSub(c[1], RMul(hw, Rat(9, 10)))]

\* Up (main.rs 429-438)
ZoomIn(p) ==
    LET c == center(p)
        hw == RDiv(width(p), RInt(2))
        hh == RDiv(height(p), RInt(2))
    IN  [top |-> RSub(c[2], RMul(hh, Rat(9, 10))),
         bottom |-> RAdd(c[2], RMul(hh, Rat(9, 10))),
         left |-> RSub(c[1], RMul(hw, Rat(9, 10))),
         right |-> RAdd(c[1], RMul(hw, Rat(9, 10)))]

\* Down (main.rs 439-448)
ZoomOut(p) ==
    LET c == center(p)
        hw == RDiv(width(p), RInt(2))
        hh == RDiv(height(p), RInt(2))
    IN  [top |-> RSub(c[2], RMul(hh, Rat(11, 10))),
         bottom |-> RAdd(c[2], RMul(hh, Rat(11, 10))),
         left |-> RSub(c[1], RMul(hw, Rat(11, 10))),
         right |-> RAdd(c[1], RMul(hw, Rat(11, 10)))]

----------------------------------------------------------------------------
(* FRACTALS is a table of three kernels (main.rs 24-87) *)

FRACTALS_len == 3

\* '[' without the test for index 0
CycleBackwardNoWrap(i) == i - 1

\* '[' (main.rs 462-469)
CycleBackward(i) == IF i = 0 THEN FRACTALS_len - 1 ELSE i - 1

\* ']' (main.rs 470-477)
CycleForward(i) == IF i = FRACTALS_len - 1 THEN 0 ELSE i + 1

----------------------------------------------------------------------------
(* The iteration cap (main.rs 372, 452-461) *)

InitialCap == 100

CapStep == 10

CapFloor == 10

\* '=' (main.rs 452-455): u32x4 addition wraps
IncreaseCap(c) == U32Add(c, U32(CapStep))

\* the guard of '-' (main.rs 457)
CanDecrease(c) == U32Gt(c, U32(CapFloor))

\* '-' (main.rs 456-461)
DecreaseCap(c) == IF CanDecrease(c) THEN U32Sub(c, U32(CapStep)) ELSE c

\* 100 + 10 * 429496719 = 2^32 - 6: the cap after 429496719 '=' events,
\* the last value of the run 100, 110, 120, ... below 2^32
LastCapBelowWrap == <<Limb - 1, Limb - 6>>

\* the caps the exploration increases from: up to 100 + 10 * (MaxCapUps - 1),
\* and the run of MaxCapUps + 1 values ending at LastCapBelowWrap
CapLow(c) == c[1] = 0

IncreaseExplored(c) ==
    \/ CapLow(c) /\ c[2] <= InitialCap + CapStep * (MaxCapUps - 1)
    \/ ~CapLow(c)

DecreaseExplored(c) ==
    \/ CapLow(c)
    \/ U32Gt(c, U32Sub(LastCapBelowWrap, U32(CapStep * MaxCapUps)))

----------------------------------------------------------------------------
(* The kernels FRACTALS[0..2] (main.rs 24-87) *)

\* f64 as fixed point: the integer v stands for v / One
One == 2 ^ FracBits

Fx(n) == n * One

\* a literal n / d, rounded toward zero
FxLit(n, d) == (n * One) \div d

\* a product, rounded toward zero
FxMul(a, b) ==
    LET q == a * b
    IN  IF q >= 0 THEN q \div One ELSE -((-q) \div One)

\* f64x4 and u32x4 have four lanes
Lanes == 4

\* a lane whose iterate has left the disc of radius FarRadius holds Far: the
\* f64 there is a large number, an infinity or a NaN, and in each case
\* `magnitude < 4.0` is false
Far == <<"far">>

FarRadius == 8

Bounded(z) ==
    z # Far /\ Abs(z[1]) <= Fx(FarRadius) /\ Abs(z[2]) <= Fx(FarRadius)

Clip(z) == IF Bounded(z) THEN z ELSE Far

\* x * x + y * y (main.rs 31, 52, 73)
Magnitude(z) == FxMul(z[1], z[1]) + FxMul(z[2], z[2])

\* mask_magnitude with <= in place of <
mask_magnitude_le(z) == z # Far /\ Magnitude(z) <= Fx(4)

\* mask_magnitude (main.rs 33, 53, 74): magnitude < 4.0
mask_magnitude(z) == z # Far /\ Magnitude(z) < Fx(4)

\* mask_iteration with <= in place of <
mask_iteration_le(it, cap) == it <= cap

\* mask_iteration (main.rs 34, 54, 75)
mask_iteration(it, cap) == it < cap

\* still_active (main.rs 35, 55, 76)
still_active(z, it, cap) == mask_magnitude(z) /\ mask_iteration(it, cap)

\* the iterate a kernel starts from (main.rs 27-28, 48-49, 69-70)
StartZ(idx, c) == IF idx = 0 THEN <<0, 0>> ELSE Clip(c)

\* Mandelbrot (main.rs 39-41)
StepMandelbrot(z, c) ==
    <<FxMul(z[1], z[1]) - FxMul(z[2], z[2]) + c[1],
      FxMul(FxMul(Fx(2), z[1]), z[2]) + c[2]>>

\* Sinking Ship (main.rs 59-61)
StepShip(z, c) ==
    <<FxMul(z[1], z[1]) - FxMul(z[2], z[2]) + c[1],
      Abs(FxMul(FxMul(Fx(2), z[1]), z[2])) + c[2]>>

\* Julia (main.rs 80-82)
StepJulia(z, c) ==
    <<FxMul(z[1], z[1]) - FxMul(z[2], z[2]) + FxLit(156, 1000),
      FxMul(FxMul(Fx(2), z[1]), z[2]) + FxLit(8, 10)>>

\* one pass of the loop body on one lane's iterate
StepZ(idx, z, c) ==
    IF z = Far THEN Far
    ELSE Clip(CASE idx = 0 -> StepMandelbrot(z, c)
                [] idx = 1 -> StepShip(z, c)
                [] OTHER -> StepJulia(z, c))

\* iteration + still_active.select(1, 0) (main.rs 42, 62, 83)
StepIteration(z, it, cap) == it + (IF still_active(z, it, cap) THEN 1 ELSE 0)

LaneSet == 1 .. Lanes

\* still_active.any() (main.rs 36, 56, 77)
AnyActive == \E l \in LaneSet : still_active(k_z[l], k_iter[l], k_cap)

\* the sample points (scaled_x, scaled_y) of the exploration
SamplePoints == {<<Fx(-2), Fx(0)>>, <<Fx(0), Fx(0)>>, <<Fx(1), Fx(1)>>,
                 <<Fx(-1), Fx(0)>>, <<Fx(2), Fx(2)>>}

KernelIdle ==
    /\ k_idx = 0
    /\ k_c = <<>>
    /\ k_cap = 0
    /\ k_z = <<>>
    /\ k_iter = <<>>
    /\ k_pc = "idle"

\* a call: the lanes of scaled_x/scaled_y are independent (calculate_pixel
\* passes the same point in every lane), max_iterations is the same in all
KernelCall ==
    /\ k_idx \in 0 .. FRACTALS_len - 1
    /\ k_c \in [LaneSet -> SamplePoints]
    /\ k_cap \in 0 .. MaxKernelCap
    /\ k_z = [l \in LaneSet |-> StartZ(k_idx, k_c[l])]
    /\ k_iter = [l \in LaneSet |-> 0]
    /\ k_pc = "loop"

\* one pass through the loop with an active lane (main.rs 31-42)
KernelStep ==
    /\ k_pc = "loop"
    /\ AnyActive
    /\ k_z' = [l \in LaneSet |-> StepZ(k_idx, k_z[l], k_c[l])]
    /\ k_iter' = [l \in LaneSet |-> StepIteration(k_z[l], k_iter[l], k_cap)]
    /\ UNCHANGED <<k_idx, k_c, k_cap, k_pc>>
    /\ UNCHANGED <<ctlVars, pixelVars, frameVars, loopVars>>

\* the break (main.rs 36-38) and the return of iteration (main.rs 44)
KernelBreak ==
    /\ k_pc = "loop"
    /\ ~AnyActive
    /\ k_pc' = "done"
    /\ UNCHANGED <<k_idx, k_c, k_cap, k_z, k_iter>>
    /\ UNCHANGED <<ctlVars, pixelVars, frameVars, loopVars>>

NextKernel == KernelStep \/ KernelBreak

----------------------------------------------------------------------------
(* Numbers wider than u32: three limbs, the least significant first.  They  *)
(* carry the f64 products of get_color and hsl_to_rgb, which are taken as   *)
(* exact reals.                                                             *)

Carry(w) ==
    LET c1 == w[1] \div Limb
        c2 == (w[2] + c1) \div Limb
    IN  <<w[1] % Limb, (w[2] + c1) % Limb, w[3] + c2>>

Wide(u) == <<u[2], u[1], 0>>

WMul(w, n) == Carry(<<w[1] * n, w[2] * n, w[3] * n>>)

WAdd(a, b) == Carry(<<a[1] + b[1], a[2] + b[2], a[3] + b[3]>>)

WLt(a, b) ==
    \/ a[3] < b[3]
    \/ a[3] = b[3] /\ a[2] < b[2]
    \/ a[3] = b[3] /\ a[2] = b[2] /\ a[1] < b[1]

WLe(a, b) == ~WLt(b, a)

\* a - b for a >= b
WSub(a, b) ==
    LET d1 == a[1] - b[1]
        b1 == IF d1 < 0 THEN 1 ELSE 0
        d2 == a[2] - b[2] - b1
        b2 == IF d2 < 0 THEN 1 ELSE 0
    IN  <<d1 % Limb, d2 % Limb, a[3] - b[3] - b2>>

WMin(a, b) == IF WLt(b, a) THEN b ELSE a

WMax(a, b) == IF WLt(a, b) THEN b ELSE a

\* a % m by subtraction (a < 2 * m where it is used)
RECURSIVE WMod(_, _)
WMod(a, m) == IF WLt(a, m) THEN a ELSE WMod(WSub(a, m), m)

----------------------------------------------------------------------------
(* Colors (main.rs 152-183) *)

\* crossterm's Color::Reset and Color::Rgb { r, g, b }
Reset == <<"Reset">>

Rgb(r, g, b) == <<"Rgb", r, g, b>>

\* (255.0 * f(n)) as u8 for hue 360 * it / cap, lightness 50, saturation 100
\* (main.rs 153-168).  With c = cap as the unit: k(n) = K / c; the terms
\* k(n) - 3, 9 - k(n), 1 and -1 are carried with 12 added (so none is below
\* 0); l - a * m = (c - m) / (2 * c), and the cast truncates.
Channel(n, it, cap) ==
    LET c == Wide(cap)
        K == WMod(WAdd(WMul(c, n), WMul(Wide(it), 12)), WMul(c, 12))
        kMinus3 == WAdd(K, WMul(c, 9))
        nineMinusK == WSub(WMul(c, 21), K)
        m == WMax(WMul(c, 11), WMin(kMinus3, WMin(nineMinusK, WMul(c, 13))))
        num == WMul(WSub(WMul(c, 13), m), 255)
    IN  CHOOSE v \in 0 .. 255 :
            /\ WLe(WMul(c, 2 * v), num)
            /\ WLt(num, WMul(c, 2 * (v + 1)))

\* hsl_to_rgb([h, 100, 50]) (main.rs 152-170) with the casts of main.rs 249-251
hsl_to_rgb(it, cap) == Rgb(Channel(0, it, cap), Channel(8, it, cap), Channel(4, it, cap))

\* get_color (main.rs 172-183); every lane of iteration holds the same value
get_color(iteration, cap) ==
    IF iteration = cap THEN Rgb(0, 0, 0)
    ELSE IF iteration = U32(0) THEN Rgb(255, 255, 255)
    ELSE hsl_to_rgb(iteration, cap)

----------------------------------------------------------------------------
(* Glyphs (main.rs 17-20, 131-150): characters are their code points *)

QUADRANTS == <<9622, 9624, 9629, 9623>>

TWO_QUADRANTS == <<9626, 9630, 9604, 9600, 9612, 9616>>

THREE_QUADRANTS == <<9625, 9631, 9627, 9628>>

FULL_BLOCK == <<9608, 32>>

\* a mask is [[top-left, top-right], [bottom-left, bottom-right]]
Mask(tl, tr, bl, br) == <<<<tl, tr>>, <<bl, br>>>>

\* get_pixel (main.rs 131-150); the arrays are indexed from 0 there
get_pixel(blocks) ==
    CASE blocks = Mask(TRUE, TRUE, TRUE, TRUE) -> FULL_BLOCK[1]
      [] blocks = Mask(FALSE, FALSE, FALSE, FALSE) -> FULL_BLOCK[2]
      [] blocks = Mask(FALSE, TRUE, TRUE, TRUE) -> THREE_QUADRANTS[2]
      [] blocks = Mask(TRUE, FALSE, TRUE, TRUE) -> THREE_QUADRANTS[1]
      [] blocks = Mask(TRUE, TRUE, FALSE, TRUE) -> THREE_QUADRANTS[4]
      [] blocks = Mask(TRUE, TRUE, TRUE, FALSE) -> THREE_QUADRANTS[3]
      [] blocks = Mask(FALSE, FALSE, TRUE, TRUE) -> TWO_QUADRANTS[3]
      [] blocks = Mask(TRUE, FALSE, FALSE, TRUE) -> TWO_QUADRANTS[1]
      [] blocks = Mask(TRUE, TRUE, FALSE, FALSE) -> TWO_QUADRANTS[4]
      [] blocks = Mask(FALSE, TRUE, TRUE, FALSE) -> TWO_QUADRANTS[2]
      [] blocks = Mask(FALSE, TRUE, FALSE, TRUE) -> TWO_QUADRANTS[5]
      [] blocks = Mask(TRUE, FALSE, TRUE, FALSE) -> TWO_QUADRANTS[6]
      [] blocks = Mask(FALSE, FALSE, FALSE, TRUE) -> QUADRANTS[4]
      [] blocks = Mask(FALSE, TRUE, FALSE, FALSE) -> QUADRANTS[3]
      [] blocks = Mask(TRUE, FALSE, FALSE, FALSE) -> QUADRANTS[2]
      [] blocks = Mask(FALSE, FALSE, TRUE, FALSE) -> QUADRANTS[1]

----------------------------------------------------------------------------
(* calculate_pixel (main.rs 185-293) *)

\* the subpixels in the order of the loops (main.rs 196-197, 230-231)
SubpixelOrder == <<<<1, 1>>, <<1, 2>>, <<2, 1>>, <<2, 2>>>>

\* subpixels_sum and subpixels_average (main.rs 219-224), wrapping u32
subpixels_sum(v) ==
    U32Add(U32Add(U32Add(v[1][1], v[1][2]), v[2][1]), v[2][2])

subpixels_average(v) == U32Div(subpixels_sum(v), 4)

\* the test of main.rs 234 with > in place of >=
IsOnStrict(value, avg) == U32Gt(value, avg)

\* the test of main.rs 234
IsOn(value, avg) == U32Ge(value, avg)

\* subpixels (main.rs 226, 236)
subpixels(v) ==
    [sy \in 1 .. 2 |-> [sx \in 1 .. 2 |-> IsOn(v[sy][sx], subpixels_average(v))]]

\* the values of the subpixels with the given mask bit, in loop order
RECURSIVE Select(_, _, _)
Select(v, on, i) ==
    IF i > 4 THEN <<>>
    ELSE LET sy == SubpixelOrder[i][1]
             sx == SubpixelOrder[i][2]
             rest == Select(v, on, i + 1)
         IN  IF subpixels(v)[sy][sx] = on THEN <<v[sy][sx]>> \o rest ELSE rest

\* subpixels_on_values, subpixels_off_values (main.rs 227-228, 235, 238)
subpixels_on_values(v) == Select(v, TRUE, 1)

subpixels_off_values(v) == Select(v, FALSE, 1)

RECURSIVE U32Sum(_)
U32Sum(vals) ==
    IF vals = <<>> THEN U32(0) ELSE U32Add(vals[1], U32Sum(Tail(vals)))

\* the average of a list, 0 when it is empty (main.rs 256-270)
AverageOrZero(vals) ==
    IF vals = <<>> THEN U32(0) ELSE U32Div(U32Sum(vals), Len(vals))

None == <<"None">>

\* the Pixel built from the four counts (main.rs 219-292)
PixelOf(v, cap) ==
    IF Len(subpixels_on_values(v)) = 4
    THEN [character |-> get_pixel(subpixels(v)),
          foreground_color |-> get_color(subpixels_average(v), cap),
          background_color |-> None]
    ELSE [character |-> get_pixel(subpixels(v)),
          foreground_color |-> get_color(AverageOrZero(subpixels_on_values(v)), cap),
          background_color |-> get_color(AverageOrZero(subpixels_off_values(v)), cap)]

PixelIdle ==
    /\ px_values = <<>>
    /\ px_cap = U32(0)
    /\ px_subpixels = <<>>
    /\ px_on = <<>>
    /\ px_off = <<>>
    /\ px_pixel = <<>>
    /\ px_pc = "idle"

\* the caps of the exploration: a small one, and the last cap below 2^32
PixelCaps == {U32(MaxPixelCap), LastCapBelowWrap}

\* counts a kernel can return under the cap: all of them for the small cap,
\* the ends of the range and 2^30 for the large one
PixelCounts(cap) ==
    IF CapLow(cap) THEN {U32(n) : n \in 0 .. cap[2]}
    ELSE {U32(0), U32(1), <<2 ^ 14, 0>>, U32Sub(cap, U32(1)), cap}

\* the state at main.rs 218: the four kernels have returned
PixelCall ==
    /\ px_cap \in PixelCaps
    /\ px_values \in [1 .. 2 -> [1 .. 2 -> PixelCounts(px_cap)]]
    /\ px_subpixels = <<>>
    /\ px_on = <<>>
    /\ px_off = <<>>
    /\ px_pixel = <<>>
    /\ px_pc = "partition"

\* main.rs 219-241: the average, the mask and the two lists
Partition ==
    /\ px_pc = "partition"
    /\ px_subpixels' = subpixels(px_values)
    /\ px_on' = subpixels_on_values(px_values)
    /\ px_off' = subpixels_off_values(px_values)
    /\ px_pc' = "color"
    /\ UNCHANGED <<px_values, px_cap, px_pixel>>
    /\ UNCHANGED <<ctlVars, kernelVars, frameVars, loopVars>>

\* main.rs 243-292: the Pixel is returned
ReturnPixel ==
    /\ px_pc = "color"
    /\ px_pixel' = PixelOf(px_values, px_cap)
    /\ px_pc' = "done"
    /\ UNCHANGED <<px_values, px_cap, px_subpixels, px_on, px_off>>
    /\ UNCHANGED <<ctlVars, kernelVars, frameVars, loopVars>>

NextPixel == Partition \/ ReturnPixel

----------------------------------------------------------------------------
(* calculate_pixel from its arguments (main.rs 185-217) *)

\* the count a kernel returns when every lane holds the point c, as in the
\* call of main.rs 213: the loop of KernelStep and KernelBreak on one lane
RECURSIVE KernelLoop(_, _, _, _, _)
KernelLoop(idx, z, c, it, cap) ==
    IF still_active(z, it, cap)
    THEN KernelLoop(idx, StepZ(idx, z, c), c, StepIteration(z, it, cap), cap)
    ELSE it

Kernel(idx, c, cap) == KernelLoop(idx, StartZ(idx, c), c, 0, cap)

\* scale_number (main.rs 121-129), exact
scale_number(number, in_min, in_max, out_min, out_max) ==
    RAdd(RDiv(RMul(RSub(number, in_min), RSub(out_max, out_min)),
              RSub(in_max, in_min)),
         out_min)

\* a rational as a fixed-point number, rounded toward zero
ToFx(r) ==
    LET q == r[1] * One
    IN  IF q >= 0 THEN q \div r[2] ELSE -((-q) \div r[2])

\* a u32 below 2^31 as a number
U32Val(u) == u[1] * Limb + u[2]

\* u16 arithmetic is modulo 2^16
U16 == 65536

\* subpixel_values (main.rs 194-217); subpixel_y and subpixel_x are 0 and 1
\* there, 1 and 2 here
subpixel_values(pixel_x, pixel_y, w, h, p, cap, idx) ==
    LET iteration(subpixel_y, subpixel_x) ==
            LET scaled_x == scale_number(RInt((pixel_x * 2 + subpixel_x) % U16),
                                         RInt(0), RInt(w * 2), p.left, p.right)
                scaled_y == scale_number(RInt((pixel_y * 2 + subpixel_y) % U16),
                                         RInt(0), RInt(h * 2), p.top, p.bottom)
            IN  U32(Kernel(idx, <<ToFx(scaled_x), ToFx(scaled_y)>>, U32Val(cap)))
    IN  <<<<iteration(0, 0), iteration(0, 1)>>,
          <<iteration(1, 0), iteration(1, 1)>>>>

calculate_pixel(pixel_x, pixel_y, w, h, p, cap, idx) ==
    PixelOf(subpixel_values(pixel_x, pixel_y, w, h, p, cap, idx), cap)

----------------------------------------------------------------------------
(* render_row and render_frame (main.rs 295-360).  A String is the sequence *)
(* of the terminal commands and characters it holds.                        *)

SetForegroundColor(c) == <<"SetForegroundColor", c>>

SetBackgroundColor(c) == <<"SetBackgroundColor", c>>

Char(ch) == <<"Char", ch>>

MoveTo(col, row) == <<"MoveTo", col, row>>

ResetColor == <<"ResetColor">>

\* last_fg_color and last_bg_color at the start of a row, as white
InitialLastWhite == Rgb(255, 255, 255)

\* last_fg_color and last_bg_color at the start of a row (main.rs 303-304)
InitialLast == Reset

\* the loop of main.rs 307-332 from column pixel_x on
RECURSIVE RowFrom(_, _, _, _, _)
RowFrom(pixel_x, pixel_y, a, last_fg_color, last_bg_color) ==
    IF pixel_x >= a.width THEN <<>>
    ELSE LET pixel == calculate_pixel(pixel_x, pixel_y, a.width, a.height,
                                      a.position, a.max_iterations, a.fractal_index)
             fg == pixel.foreground_color
             bg == pixel.background_color
             fgOut == IF fg # last_fg_color THEN <<SetForegroundColor(fg)>> ELSE <<>>
             bgOut == IF bg # None /\ bg # last_bg_color
                      THEN <<SetBackgroundColor(bg)>> ELSE <<>>
             nextBg == IF bg # None THEN bg ELSE last_bg_color
         IN  fgOut \o bgOut \o <<Char(pixel.character)>>
             \o RowFrom(pixel_x + 1, pixel_y, a, fg, nextBg)

\* render_row (main.rs 295-335)
render_row(pixel_y, a) == RowFrom(0, pixel_y, a, InitialLast, InitialLast)

\* the size of the terminal, the viewports and the caps of the exploration
RECURSIVE PanWTimes(_, _)
PanWTimes(p, n) == IF n = 0 THEN p ELSE PanWTimes(PanW(p), n - 1)

FrameArgs ==
    [width : 1 .. MaxWidth, height : 1 .. MaxHeight,
     position : {default_position, PanWTimes(default_position, FramePans)},
     max_iterations : {U32(1), U32(MaxFrameCap)},
     fractal_index : 0 .. FRACTALS_len - 1]

RowSet == 0 .. f_args.height - 1

FrameIdle ==
    /\ f_args = <<>>
    /\ f_task = <<>>
    /\ f_result = <<>>
    /\ f_completed = <<>>
    /\ f_output = <<>>
    /\ f_pc = "idle"

\* the call: one task per row is handed to the pool (main.rs 344-346)
FrameCall ==
    /\ f_args \in FrameArgs
    /\ f_task = [y \in RowSet |-> "queued"]
    /\ f_result = [y \in RowSet |-> <<>>]
    /\ f_completed = <<>>
    /\ f_output = <<>>
    /\ f_pc = "map"

\* a worker takes the task of row y
StartRow(y) ==
    /\ f_pc = "map"
    /\ f_task[y] = "queued"
    /\ f_task' = [f_task EXCEPT ![y] = "running"]
    /\ UNCHANGED <<f_args, f_result, f_completed, f_output, f_pc>>
    /\ UNCHANGED <<ctlVars, kernelVars, pixelVars, loopVars>>

\* the closure of row y returns (pixel_y, render_row(...)) (main.rs 346-351)
FinishRow(y) ==
    /\ f_pc = "map"
    /\ f_task[y] = "running"
    /\ f_task' = [f_task EXCEPT ![y] = "done"]
    /\ f_result' = [f_result EXCEPT ![y] = <<y, render_row(y, f_args)>>]
    /\ f_completed' = Append(f_completed, y)
    /\ UNCHANGED <<f_args, f_output, f_pc>>
    /\ UNCHANGED <<ctlVars, kernelVars, pixelVars, loopVars>>

\* the results in the order the tasks completed
RECURSIVE CollectCompleted(_, _)
CollectCompleted(result, completed) ==
    IF completed = <<>> THEN <<>>
    ELSE <<result[Head(completed)]>> \o CollectCompleted(result, Tail(completed))

\* collect::<Vec<(u16, String)>>() of an indexed parallel iterator (main.rs
\* 352): the results in the order of the range 0 .. height
Collect(result, completed) == [i \in 1 .. Len(completed) |-> result[i - 1]]

\* the loop of main.rs 354-357 from element i of rows on
RECURSIVE Join(_, _)
Join(rows, i) ==
    IF i > Len(rows) THEN <<>>
    ELSE <<MoveTo(0, rows[i][1])>> \o rows[i][2] \o Join(rows, i + 1)

\* all tasks have completed: rows is collected, the output is built and
\* returned with ResetColor at its end (main.rs 352-359)
ReturnFrame ==
    /\ f_pc = "map"
    /\ \A y \in RowSet : f_task[y] = "done"
    /\ f_output' = Join(Collect(f_result, f_completed), 1) \o <<ResetColor>>
    /\ f_pc' = "done"
    /\ UNCHANGED <<f_args, f_task, f_result, f_completed>>
    /\ UNCHANGED <<ctlVars, kernelVars, pixelVars, loopVars>>

NextFrame ==
    \/ \E y \in RowSet : StartRow(y)
    \/ \E y \in RowSet : FinishRow(y)
    \/ ReturnFrame

----------------------------------------------------------------------------
(* The control loop of main (main.rs 362-522) *)

\* the sizes the terminal takes (columns, rows)
TermSizes == {<<1, 1>>, <<2, 1>>}

\* the frame render_frame returns is a function of its arguments (RenderFrame
\* below computes it); the sink keeps the arguments of the frame written last
Frame(size, p, cap, i) ==
    [size |-> size, position |-> p, max_iterations |-> cap, fractal_index |-> i]

\* no event has arrived and the BufWriter holds nothing
LoopIdle ==
    /\ pending = <<>>
    /\ arrived = 0
    /\ writer = <<>>

\* main's locals as main sets them (main.rs 365-374), before any event
CtlIdle ==
    /\ position = default_position
    /\ max_iterations = U32(InitialCap)
    /\ fractal_index = 0
    /\ last_terminal_size = <<0, 0>>
    /\ should_redraw = FALSE
    /\ pc = "read"
    /\ term_size = <<1, 1>>
    /\ sink = "cleared"
    /\ last_key = "none"
    /\ before = [position |-> default_position, fractal_index |-> 0,
                 max_iterations |-> max_iterations]
    /\ moves = 0

Init ==
    /\ position = default_position
    /\ max_iterations \in {U32(InitialCap), LastCapBelowWrap}
    /\ fractal_index = 0
    /\ last_terminal_size = <<0, 0>>
    /\ should_redraw = FALSE
    /\ pc = "read"
    /\ term_size \in TermSizes
    /\ sink = "cleared"
    /\ last_key = "none"
    /\ before = [position |-> default_position, fractal_index |-> 0,
                 max_iterations |-> max_iterations]
    /\ moves = 0
    /\ KernelIdle
    /\ PixelIdle
    /\ FrameIdle
    /\ LoopIdle

\* the end of one pass through the match (main.rs 390-494): the event is
\* recorded, and the loop goes on to the redraw (main.rs 496) or to the read
Handled(key, redraw) ==
    /\ last_key' = key
    /\ before' = [position |-> position, fractal_index |-> fractal_index,
                  max_iterations |-> max_iterations]
    /\ should_redraw' = redraw
    /\ pc' = IF redraw THEN "redraw" ELSE "read"
    /\ pending' = IF pending = <<>> THEN pending ELSE Tail(pending)
    /\ UNCHANGED <<arrived, writer>>
    /\ UNCHANGED <<kernelVars, pixelVars, frameVars>>

\* a pan or zoom key: the viewport is replaced and redrawn
Move(key, p) ==
    /\ pc = "read"
    /\ moves < MaxMoves
    /\ position' = p
    /\ moves' = moves + 1
    /\ Handled(key, TRUE)
    /\ UNCHANGED <<max_iterations, fractal_index, last_terminal_size, term_size, sink>>

KeyW == Move("w", PanW(position))

KeyS == Move("s", PanS(position))

KeyA == Move("a", PanA(position))

KeyD == Move("d", PanD(position))

KeyUp == Move("Up", ZoomIn(position))

KeyDown == Move("Down", ZoomOut(position))

\* Enter (main.rs 449-451)
KeyEnter ==
    /\ pc = "read"
    /\ Handled("Enter", TRUE)
    /\ UNCHANGED <<position, max_iterations, fractal_index, last_terminal_size,
                   term_size, sink, moves>>

\* '=' (main.rs 452-455)
KeyEquals ==
    /\ pc = "read"
    /\ IncreaseExplored(max_iterations)
    /\ max_iterations' = IncreaseCap(max_iterations)
    /\ Handled("=", TRUE)
    /\ UNCHANGED <<position, fractal_index, last_terminal_size, term_size, sink, moves>>

\* '-' (main.rs 456-461)
KeyMinus ==
    /\ pc = "read"
    /\ DecreaseExplored(max_iterations)
    /\ max_iterations' = DecreaseCap(max_iterations)
    /\ Handled("-", CanDecrease(max_iterations))
    /\ UNCHANGED <<position, fractal_index, last_terminal_size, term_size, sink, moves>>

\* '[' (main.rs 462-469)
KeyLeftBracket ==
    /\ pc = "read"
    /\ fractal_index' = CycleBackward(fractal_index)
    /\ Handled("[", TRUE)
    /\ UNCHANGED <<position, max_iterations, last_terminal_size, term_size, sink, moves>>

\* ']' (main.rs 470-477)
KeyRightBracket ==
    /\ pc = "read"
    /\ fractal_index' = CycleForward(fractal_index)
    /\ Handled("]", TRUE)
    /\ UNCHANGED <<position, max_iterations, last_terminal_size, term_size, sink, moves>>

\* 'r' (main.rs 478-483)
KeyR ==
    /\ pc = "read"
    /\ position' = default_position
    /\ moves' = IF position # default_position THEN 0 ELSE moves
    /\ Handled("r", position # default_position)
    /\ UNCHANGED <<max_iterations, fractal_index, last_terminal_size, term_size, sink>>

\* a key that is not a press (main.rs 392-394), a key with no binding
\* (main.rs 484) or another event (main.rs 493)
KeyOther ==
    /\ pc = "read"
    /\ Handled("other", FALSE)
    /\ UNCHANGED <<position, max_iterations, fractal_index, last_terminal_size,
                   term_size, sink, moves>>

\* Resize (main.rs 487-492): the terminal has the size the event reports
Resize(size) ==
    /\ pc = "read"
    /\ term_size' = size
    /\ sink' = IF size # last_terminal_size THEN "cleared" ELSE sink
    /\ Handled("Resize", size # last_terminal_size)
    /\ UNCHANGED <<position, max_iterations, fractal_index, last_terminal_size, moves>>

\* the redraw (main.rs 496-509): the frame is rendered, written and flushed
Redraw ==
    /\ pc = "redraw"
    /\ sink' = Frame(term_size, position, max_iterations, fractal_index)
    /\ last_terminal_size' = term_size
    /\ should_redraw' = FALSE
    /\ pc' = "read"
    /\ UNCHANGED <<position, max_iterations, fractal_index, term_size, last_key,
                   before, moves>>
    /\ UNCHANGED <<kernelVars, pixelVars, frameVars, loopVars>>

\* 'q' (main.rs 396) leaves the loop; the screen is cleared (main.rs 512-521)
KeyQ ==
    /\ pc = "read"
    /\ sink' = "cleared"
    /\ last_key' = "q"
    /\ before' = [position |-> position, fractal_index |-> fractal_index,
                  max_iterations |-> max_iterations]
    /\ should_redraw' = FALSE
    /\ pc' = "done"
    /\ pending' = IF pending = <<>> THEN pending ELSE Tail(pending)
    /\ UNCHANGED <<arrived, writer>>
    /\ UNCHANGED <<position, max_iterations, fractal_index, last_terminal_size,
                   term_size, moves>>
    /\ UNCHANGED <<kernelVars, pixelVars, frameVars>>

Next ==
    \/ KeyQ
    \/ KeyW
    \/ KeyS
    \/ KeyA
    \/ KeyD
    \/ KeyUp
    \/ KeyDown
    \/ KeyEnter
    \/ KeyEquals
    \/ KeyMinus
    \/ KeyLeftBracket
    \/ KeyRightBracket
    \/ KeyR
    \/ KeyOther
    \/ \E size \in TermSizes : Resize(size)
    \/ Redraw

Spec == Init /\ [][Next]_vars

----------------------------------------------------------------------------
(* The control loop with its renders in flight (main.rs 387-510, 337-360): *)
(* input events arrive at any time and wait until event::read() takes them; *)
(* the redraw is the call of render_frame with its row tasks, the write to  *)
(* the BufWriter and the flush.                                             *)

\* the sizes the terminal takes here (columns, rows)
LoopSizes == {<<1, 1>>, <<1, 2>>}

\* the String render_row returns is a function of its arguments; here it is
\* kept as the arguments it was computed from
RowText(pixel_y, w, h, p, cap, idx) ==
    <<[row |-> pixel_y, width |-> w, height |-> h, position |-> p,
       max_iterations |-> cap, fractal_index |-> idx]>>

\* the rows of the call of render_frame in flight
LoopRows == IF f_pc = "idle" THEN {} ELSE RowSet

\* an input event arrives, wherever main is
Arrive ==
    /\ pc # "done"
    /\ arrived < MaxEvents
    /\ pending' = Append(pending, pc)
    /\ arrived' = arrived + 1
    /\ UNCHANGED <<writer, ctlVars, kernelVars, pixelVars, frameVars>>

\* event::read() (main.rs 390) returns the oldest event that has arrived
EventRead == pc = "read" /\ pending # <<>>

\* main.rs 496-504: the size of the terminal is taken and render_frame is
\* called with it, a reference to position, and the cap and the index
BeginRedraw ==
    /\ pc = "redraw"
    /\ pc' = "render"
    /\ f_args' = [width |-> term_size[1], height |-> term_size[2],
                  position |-> position, max_iterations |-> max_iterations,
                  fractal_index |-> fractal_index]
    /\ f_task' = [y \in 0 .. term_size[2] - 1 |-> "queued"]
    /\ f_result' = [y \in 0 .. term_size[2] - 1 |-> <<>>]
    /\ f_completed' = <<>>
    /\ f_output' = <<>>
    /\ f_pc' = "map"
    /\ UNCHANGED <<position, max_iterations, fractal_index, last_terminal_size,
                   should_redraw, term_size, sink, last_key, before, moves>>
    /\ UNCHANGED <<kernelVars, pixelVars, loopVars>>

\* the closure of row y returns (main.rs 346-351): width, height, the cap and
\* the index are render_frame's own copies, position is read through the
\* reference to main's variable
LoopFinishRow(y) ==
    /\ f_pc = "map"
    /\ f_task[y] = "running"
    /\ f_task' = [f_task EXCEPT ![y] = "done"]
    /\ f_result' = [f_result EXCEPT ![y] =
            <<y, RowText(y, f_args.width, f_args.height, position,
                         f_args.max_iterations, f_args.fractal_index)>>]
    /\ f_completed' = Append(f_completed, y)
    /\ UNCHANGED <<f_args, f_output, f_pc>>
    /\ UNCHANGED <<ctlVars, kernelVars, pixelVars, loopVars>>

\* main.rs 505-506 with the frame written while a row task still runs
LoopWriteEarly ==
    /\ pc = "render"
    /\ f_pc = "map"
    /\ f_completed # <<>>
    /\ writer' = Join(CollectCompleted(f_result, f_completed), 1) \o <<ResetColor>>
    /\ sink' \in {sink, writer'}
    /\ pc' = "flush"
    /\ f_args' = <<>>
    /\ f_task' = <<>>
    /\ f_result' = <<>>
    /\ f_completed' = <<>>
    /\ f_output' = <<>>
    /\ f_pc' = "idle"
    /\ UNCHANGED <<position, max_iterations, fractal_index, last_terminal_size,
                   should_redraw, term_size, last_key, before, moves>>
    /\ UNCHANGED <<pending, arrived, kernelVars, pixelVars>>

\* main.rs 505-506: render_frame has returned, the cursor is moved and the
\* frame is handed to the BufWriter, which keeps it or, for a frame that is
\* larger than its buffer, passes it through to the sink at once
LoopWrite ==
    /\ pc = "render"
    /\ f_pc = "done"
    /\ writer' = f_output
    /\ sink' \in {sink, f_output}
    /\ pc' = "flush"
    /\ f_args' = <<>>
    /\ f_task' = <<>>
    /\ f_result' = <<>>
    /\ f_completed' = <<>>
    /\ f_output' = <<>>
    /\ f_pc' = "idle"
    /\ UNCHANGED <<position, max_iterations, fractal_index, last_terminal_size,
                   should_redraw, term_size, last_key, before, moves>>
    /\ UNCHANGED <<pending, arrived, kernelVars, pixelVars>>

\* main.rs 507-508: the flush, after which the sink holds the frame, and
\* the size of the frame is remembered
LoopFlush ==
    /\ pc = "flush"
    /\ sink' = writer
    /\ writer' = <<>>
    /\ last_terminal_size' = term_size
    /\ should_redraw' = FALSE
    /\ pc' = "read"
    /\ UNCHANGED <<position, max_iterations, fractal_index, term_size, last_key,
                   before, moves>>
    /\ UNCHANGED <<pending, arrived, kernelVars, pixelVars, frameVars>>

LoopNext ==
    \/ Arrive
    \/ EventRead /\ KeyQ
    \/ EventRead /\ KeyW
    \/ EventRead /\ KeyS
    \/ EventRead /\ KeyA
    \/ EventRead /\ KeyD
    \/ EventRead /\ KeyUp
    \/ EventRead /\ KeyDown
    \/ EventRead /\ KeyEnter
    \/ EventRead /\ KeyEquals
    \/ EventRead /\ KeyMinus
    \/ EventRead /\ KeyLeftBracket
    \/ EventRead /\ KeyRightBracket
    \/ EventRead /\ KeyR
    \/ EventRead /\ KeyOther
    \/ \E size \in LoopSizes : EventRead /\ Resize(size)
    \/ BeginRedraw
    \/ \E y \in LoopRows : StartRow(y)
    \/ \E y \in LoopRows : LoopFinishRow(y)
    \/ ReturnFrame
    \/ LoopWrite
    \/ LoopFlush

InitLoop ==
    /\ position = default_position
    /\ max_iterations = U32(InitialCap)
    /\ fractal_index = 0
    /\ last_terminal_size = <<0, 0>>
    /\ should_redraw = FALSE
    /\ pc = "read"
    /\ term_size \in LoopSizes
    /\ sink = <<>>
    /\ last_key = "none"
    /\ before = [position |-> default_position, fractal_index |-> 0,
                 max_iterations |-> max_iterations]
    /\ moves = 0
    /\ KernelIdle
    /\ PixelIdle
    /\ FrameIdle
    /\ LoopIdle

SpecLoop == InitLoop /\ [][LoopNext]_vars

\* one call of calculate_pixel, from the four counts on
InitPixel ==
    /\ CtlIdle
    /\ KernelIdle
    /\ PixelCall
    /\ FrameIdle
    /\ LoopIdle

SpecPixel == InitPixel /\ [][NextPixel]_vars

\* one call of render_frame
InitFrame ==
    /\ CtlIdle
    /\ KernelIdle
    /\ PixelIdle
    /\ FrameCall
    /\ LoopIdle

SpecFrame == InitFrame /\ [][NextFrame]_vars

\* one kernel call; the loop is straight-line code that keeps running
InitKernel ==
    /\ CtlIdle
    /\ KernelCall
    /\ PixelIdle
    /\ FrameIdle
    /\ LoopIdle

SpecKernel ==
    /\ InitKernel
    /\ [][NextKernel]_vars
    /\ WF_vars(NextKernel)

----------------------------------------------------------------------------
(* Claims about the control loop, checked under Spec *)

\* C6: after any sequence of '=' and '-' events from the initial cap of 100
\* the cap, a wrapping u32 stepped by 10, is never below 10.
C6_CapNeverBelowFloor == U32Ge(max_iterations, U32(CapFloor))

\* C8: fractal_index is always an index of FRACTALS; '[' at 0 gives the last
\* index, ']' at the last index gives 0, and a ']' followed by a '[' (or a
\* '[' followed by a ']') restores the index.
C8_IndexCycles ==
    /\ [](fractal_index \in 0 .. FRACTALS_len - 1)
    /\ []((last_key = "[" /\ before.fractal_index = 0)
            => fractal_index = FRACTALS_len - 1)
    /\ []((last_key = "]" /\ before.fractal_index = FRACTALS_len - 1)
            => fractal_index = 0)
    /\ [][(last_key = "]" /\ last_key' = "[")
            => fractal_index' = before.fractal_index]_vars
    /\ [][(last_key = "[" /\ last_key' = "]")
            => fractal_index' = before.fractal_index]_vars

\* '[' was handled at index 0 and the index is now the last one
C8_Witness ==
    /\ last_key = "["
    /\ before.fractal_index = 0
    /\ fractal_index = FRACTALS_len - 1

\* C9: after any sequence of pan, zoom and reset events from the default
\* viewport, left < right and top < bottom (exact rationals).
C9_ViewportOrdered ==
    /\ RLt(position.left, position.right)
    /\ RLt(position.top, position.bottom)

\* two zoom-ins in a row have been handled: the window has shrunk twice
C9_Witness ==
    /\ last_key = "Up"
    /\ moves = 2
    /\ before.position = ZoomIn(default_position)
    /\ RLt(width(position), width(before.position))

\* the step handles key k2 right after key k1 was handled (the redraw between
\* them changes neither last_key nor the viewport)
KeyAfter(k1, k2) == last_key = k1 /\ last_key' = k2

OppositePans == {<<"w", "s">>, <<"s", "w">>, <<"a", "d">>, <<"d", "a">>}

\* C10 as stated: a pan followed by the opposite pan does not return exactly
\* to the viewport before the two pans (exact rationals).
C10_RoundTripDiffers ==
    [][\A pr \in OppositePans :
         KeyAfter(pr[1], pr[2]) => position' # before.position]_vars

\* C10 amended: a pan followed by the opposite pan returns exactly to the
\* viewport before the two pans (exact rationals): a pan shifts the window by
\* a tenth of its half extent and keeps the extent, the opposite pan shifts
\* it back.
C10_RoundTripRestores ==
    [][\A pr \in OppositePans :
         KeyAfter(pr[1], pr[2]) => position' = before.position]_vars

\* 'w' then 's' from the default viewport: two moves were made, the first
\* gave PanW(default_position), which only 'w' gives, and the last was 's'
C10_Witness ==
    /\ last_key = "s"
    /\ moves = 2
    /\ before.position = PanW(default_position)
    /\ before.position # default_position
    /\ position = default_position

----------------------------------------------------------------------------
(* Claims about the kernels, checked under SpecKernel *)

KernelDone == k_pc = "done"

\* the lane has left the disc of radius 2: its squared magnitude is above 4
\* (Far lanes are beyond radius FarRadius)
Above4(z) == z = Far \/ Magnitude(z) > Fx(4)

Exactly4(z) == z # Far /\ Magnitude(z) = Fx(4)

\* C1: for every variant, cap and sample point the kernel loop stops and each
\* lane's count c satisfies 0 <= c <= cap.
C1_CountWithinCap ==
    /\ [](k_pc # "idle" => \A l \in LaneSet : k_iter[l] \in 0 .. k_cap)
    /\ <>KernelDone

\* a lane has counted up to a cap of at least 2 while another lane stopped
\* earlier, and the loop has returned
C1_Witness ==
    /\ KernelDone
    /\ k_cap >= 2
    /\ \E l, m \in LaneSet : k_iter[l] = k_cap /\ k_iter[m] < k_cap

\* every lane holds the same point, as in the calls calculate_pixel makes
SplatCall == \A l, m \in LaneSet : k_c[l] = k_c[m]

\* C7 as stated: a lane counts as escaped only when zx^2 + zy^2 > 4, so a
\* lane returned with a count below the cap is strictly above 4, and a lane
\* at exactly 4 keeps iterating: Mandelbrot at (-2, 0) returns cap.
C7_EscapeStrictlyAbove4 ==
    (KernelDone /\ SplatCall) =>
        \A l \in LaneSet :
            /\ k_iter[l] < k_cap => Above4(k_z[l])
            /\ (k_idx = 0 /\ k_c[l] = <<Fx(-2), Fx(0)>>) => k_iter[l] = k_cap

\* C7 amended: in every variant a lane counts as escaped when zx^2 + zy^2 is
\* at least 4 (the loop continues a lane only while zx^2 + zy^2 < 4); a lane
\* at exactly 4 is escaped and is not counted any more: Mandelbrot at (-2, 0),
\* at exactly 4 from the first step on, returns 1 for every cap >= 1.
C7_EscapeAtOrAbove4 ==
    /\ [][\A l \in LaneSet :
            (k_pc = "loop" /\ k_pc' = "loop") =>
                /\ (k_iter'[l] = k_iter[l] + 1)
                     <=> (k_z[l] # Far /\ Magnitude(k_z[l]) < Fx(4)
                          /\ k_iter[l] < k_cap)
                /\ (Exactly4(k_z[l]) \/ Above4(k_z[l])) => k_iter'[l] = k_iter[l]]_vars
    /\ [](KernelDone =>
            \A l \in LaneSet :
                /\ k_iter[l] < k_cap => (Exactly4(k_z[l]) \/ Above4(k_z[l]))
                /\ (k_idx = 0 /\ k_c[l] = <<Fx(-2), Fx(0)>>)
                     => (k_iter[l] = IF k_cap >= 1 THEN 1 ELSE 0))

\* Mandelbrot at (-2, 0) with a cap of at least 2: the lane is at exactly 4
\* and has returned 1
C7_Witness ==
    /\ KernelDone
    /\ k_idx = 0
    /\ k_cap >= 2
    /\ \E l \in LaneSet :
        /\ k_c[l] = <<Fx(-2), Fx(0)>>
        /\ Exactly4(k_z[l])
        /\ k_iter[l] = 1

----------------------------------------------------------------------------
(* Claims about the sampler and the glyph table, checked under SpecPixel *)

\* the quadrants a block character fills (The Unicode Standard, Block
\* Elements U+2580..U+259F); a space fills none
FilledQuadrants(ch) ==
    CASE ch = 32 -> {}
      [] ch = 9600 -> {"tl", "tr"}
      [] ch = 9604 -> {"bl", "br"}
      [] ch = 9608 -> {"tl", "tr", "bl", "br"}
      [] ch = 9612 -> {"tl", "bl"}
      [] ch = 9616 -> {"tr", "br"}
      [] ch = 9622 -> {"bl"}
      [] ch = 9623 -> {"br"}
      [] ch = 9624 -> {"tl"}
      [] ch = 9625 -> {"tl", "bl", "br"}
      [] ch = 9626 -> {"tl", "br"}
      [] ch = 9627 -> {"tl", "tr", "bl"}
      [] ch = 9628 -> {"tl", "tr", "br"}
      [] ch = 9629 -> {"tr"}
      [] ch = 9630 -> {"tr", "bl"}
      [] ch = 9631 -> {"tr", "bl", "br"}

\* the positions a mask has on
OnQuadrants(blocks) ==
    (IF blocks[1][1] THEN {"tl"} ELSE {}) \cup (IF blocks[1][2] THEN {"tr"} ELSE {})
    \cup (IF blocks[2][1] THEN {"bl"} ELSE {}) \cup (IF blocks[2][2] THEN {"br"} ELSE {})

\* C2: get_pixel maps a mask to the block glyph whose filled quadrants are
\* exactly the mask's on positions; the left column gives the left half block
\* U+258C and the right column the right half block U+2590.
C2_GlyphFillsMask ==
    px_pc = "done" =>
        FilledQuadrants(px_pixel.character) = OnQuadrants(px_subpixels)

\* C5: with mean = floor(sum / 4) and on meaning value >= mean, the on-set is
\* never empty, so the all-off mask never reaches get_pixel and the default
\* of 0 for an empty on-set is never used; when the four values are equal all
\* four are on, the background is None and the glyph is the full block.
C5_OnSetNeverEmpty ==
    /\ px_pc \in {"color", "done"} =>
        /\ px_on # <<>>
        /\ px_subpixels # Mask(FALSE, FALSE, FALSE, FALSE)
        /\ Len(px_on) + Len(px_off) = 4
    /\ (px_pc = "done"
        /\ \A sy, sx \in 1 .. 2 : px_values[sy][sx] = px_values[1][1]) =>
        /\ Len(px_on) = 4
        /\ px_pixel.background_color = None
        /\ px_pixel.character = FULL_BLOCK[1]

\* four equal counts whose u32 sum has wrapped, sampled to the full block
C5_Witness ==
    /\ px_pc = "done"
    /\ \A sy, sx \in 1 .. 2 : px_values[sy][sx] = px_values[1][1]
    /\ U32Lt(subpixels_sum(px_values), px_values[1][1])
    /\ px_pixel.background_color = None
    /\ px_pixel.character = FULL_BLOCK[1]

----------------------------------------------------------------------------
(* render_frame: the order of the rows, and the frame on a terminal *)

\* the rows of a frame's output: it is cut at every MoveTo, and a row is the
\* row the cursor was moved to with the text up to the next MoveTo or
\* ResetColor
RECURSIVE RowsOf(_, _)
RowsOf(out, acc) ==
    IF out = <<>> THEN acc
    ELSE IF Head(out)[1] = "MoveTo"
         THEN RowsOf(Tail(out), Append(acc, <<Head(out)[3], <<>>>>))
    ELSE IF Head(out)[1] = "ResetColor" \/ acc = <<>>
         THEN RowsOf(Tail(out), acc)
    ELSE RowsOf(Tail(out),
                [acc EXCEPT ![Len(acc)] = <<@[1], Append(@[2], Head(out))>>])

IsResetColor(t) == t = ResetColor

IsMoveTo(t) == t[1] = "MoveTo"

\* C3: render_frame returns the rows in row-index order 0, 1, ..., height-1,
\* each row once and each as its task returned it, whatever the order the
\* row tasks started and completed in; nothing of the buffer exists before
\* every task has completed, and the buffer ends with its only ResetColor.
C3_RowsInIndexOrder ==
    /\ (f_pc = "map" => f_output = <<>>)
    /\ (f_pc = "done" =>
        /\ \A y \in RowSet : f_task[y] = "done"
        /\ RowsOf(f_output, <<>>) = [i \in 1 .. f_args.height |-> f_result[i - 1]]
        /\ \A i \in 1 .. f_args.height : f_result[i - 1][1] = i - 1
        /\ SelectSeq(f_output, IsMoveTo)
              = [i \in 1 .. f_args.height |-> MoveTo(0, i - 1)]
        /\ Len(SelectSeq(f_output, IsResetColor)) = 1
        /\ f_output[Len(f_output)] = ResetColor)

\* a frame of three rows whose tasks completed last row first
C3_Witness ==
    /\ f_pc = "done"
    /\ f_args.height = 3
    /\ f_completed = <<2, 1, 0>>
    /\ Len(f_output) > 4

\* what a terminal that keeps a cursor, a current foreground and a current
\* background does with the output from token i on: the cells it writes, each
\* with the colors current when its glyph is written and whether a color
\* directive came since the glyph before
RECURSIVE Replay(_, _, _, _, _, _, _)
Replay(out, i, cursor, fg, bg, fgSet, bgSet) ==
    IF i > Len(out) THEN <<>>
    ELSE LET t == out[i]
         IN  CASE t[1] = "MoveTo" ->
                    Replay(out, i + 1, <<t[2], t[3]>>, fg, bg, fgSet, bgSet)
               [] t[1] = "SetForegroundColor" ->
                    Replay(out, i + 1, cursor, t[2], bg, TRUE, bgSet)
               [] t[1] = "SetBackgroundColor" ->
                    Replay(out, i + 1, cursor, fg, t[2], fgSet, TRUE)
               [] t[1] = "ResetColor" ->
                    Replay(out, i + 1, cursor, Reset, Reset, fgSet, bgSet)
               [] t[1] = "Char" ->
                    <<[col |-> cursor[1], row |-> cursor[2], ch |-> t[2],
                       fg |-> fg, bg |-> bg, fgSet |-> fgSet, bgSet |-> bgSet]>>
                    \o Replay(out, i + 1, <<cursor[1] + 1, cursor[2]>>,
                              fg, bg, FALSE, FALSE)

Shown == Replay(f_output, 1, <<0, 0>>, Reset, Reset, FALSE, FALSE)

\* the cell the reference renderer computes at a column and a row
CellAt(col, row) ==
    calculate_pixel(col, row, f_args.width, f_args.height, f_args.position,
                    f_args.max_iterations, f_args.fractal_index)

\* C4: on a terminal that keeps a current foreground and background, every
\* cell of every row of the frame is written once, with the terminal's
\* current foreground equal to the cell's foreground and, if the cell has a
\* background, the current background equal to the cell's background; a cell
\* without a background carries the full block.
C4_ReplayShowsCells ==
    f_pc = "done" =>
        LET shown == Shown
        IN  /\ {<<shown[i].col, shown[i].row>> : i \in 1 .. Len(shown)}
                  = (0 .. f_args.width - 1) \X RowSet
            /\ Len(shown) = f_args.width * f_args.height
            /\ \A i \in 1 .. Len(shown) :
                  LET s == shown[i]
                      pixel == CellAt(s.col, s.row)
                  IN  /\ s.ch = pixel.character
                      /\ s.fg = pixel.foreground_color
                      /\ pixel.background_color # None
                            => s.bg = pixel.background_color
                      /\ pixel.background_color = None => s.ch = FULL_BLOCK[1]

\* a frame in which a cell after the first of its row is written under a
\* foreground set for an earlier cell, another with a background under a
\* background set for an earlier cell, a cell without a background while
\* the terminal holds one, and the first cell of a later row has the
\* foreground the row before ended with
C4_Witness ==
    /\ f_pc = "done"
    /\ \E i \in 1 .. Len(Shown) : Shown[i].col > 0 /\ ~Shown[i].fgSet
    /\ \E i \in 1 .. Len(Shown) :
          /\ Shown[i].col > 0
          /\ ~Shown[i].bgSet
          /\ CellAt(Shown[i].col, Shown[i].row).background_color # None
    /\ \E i \in 1 .. Len(Shown) :
          /\ CellAt(Shown[i].col, Shown[i].row).background_color = None
          /\ Shown[i].bg # Reset
    /\ \E i \in 2 .. Len(Shown) :
          /\ Shown[i].row > 0
          /\ Shown[i].col = 0
          /\ Shown[i].fgSet
          /\ Shown[i - 1].fg = Shown[i].fg

----------------------------------------------------------------------------
(* The control loop while a render is in flight *)

\* main is between the start of a redraw and the end of its flush
InRedraw == pc \in {"redraw", "render", "flush"}

\* the frame of a size, a viewport, a cap and an index: its rows in index
\* order, each computed from these values
ExpectedFrame(size, p, cap, idx) ==
    Join([i \in 1 .. size[2] |->
            <<i - 1, RowText(i - 1, size[1], size[2], p, cap, idx)>>], 1)
    \o <<ResetColor>>

\* the frame of main's locals
CurrentFrame == ExpectedFrame(term_size, position, max_iterations, fractal_index)

\* every row that is complete was computed from the values main holds
RowsFromSameValues ==
    /\ f_args = [width |-> term_size[1], height |-> term_size[2],
                 position |-> position, max_iterations |-> max_iterations,
                 fractal_index |-> fractal_index]
    /\ \A y \in RowSet :
          f_task[y] = "done" =>
              f_result[y] = <<y, RowText(y, term_size[1], term_size[2], position,
                                          max_iterations, fractal_index)>>

\* C11: between the start of a redraw and the write of its frame no event
\* is processed and the viewport, the cap and the index do not change; every
\* row of a frame is computed from the same viewport, cap, index, width and
\* height; the frame is handed to the sink only when all of its rows are
\* complete; and an event that arrived during a redraw is handled only after
\* that frame has been written and flushed.
C11_RenderNotInterrupted ==
    /\ [](pc = "render" => RowsFromSameValues /\ writer = <<>>)
    /\ [][InRedraw =>
            /\ UNCHANGED <<position, max_iterations, fractal_index, term_size,
                           last_key, before>>
            /\ Len(pending') >= Len(pending)]_vars
    /\ [][writer' # writer /\ writer' # <<>> =>
            /\ pc = "render"
            /\ f_pc = "done"
            /\ \A y \in RowSet : f_task[y] = "done"
            /\ writer' = CurrentFrame]_vars
    /\ [][pc = "flush" /\ pc' # "flush" =>
            pc' = "read" /\ sink' = CurrentFrame /\ writer' = <<>>]_vars
    /\ [][Len(pending') < Len(pending) =>
            /\ pc = "read"
            /\ writer = <<>>
            /\ f_pc = "idle"
            /\ Head(pending) \in {"redraw", "render", "flush"} => sink = CurrentFrame]_vars

\* an event arrived while the two rows of a panned frame were rendered, and
\* it is still waiting when that frame has been flushed and main reads again
C11_Witness ==
    /\ pc = "read"
    /\ pending # <<>>
    /\ Head(pending) = "render"
    /\ term_size = <<1, 2>>
    /\ position # default_position
    /\ writer = <<>>
    /\ sink = CurrentFrame

====
